---- MODULE Spec2Model ----
(***************************************************************************)
(* Rent-statement generator (src/app.py): the SQLite store boleto.db with  *)
(* its tables apartamentos / configs / lancamentos, the legacy tables      *)
(* config / lancamentos that init_db migrates, and the functions that read *)
(* and write them.                                                         *)
(*                                                                         *)
(* Texts are sequences of characters; " " is the blank that str.strip()    *)
(* removes.  A long literal of the source is written as one non-blank      *)
(* unit.  SQL NULL / Python None in a text column is the value NULL.       *)
(* Numbers that may be None or unparseable are tagged records (Num, None_, *)
(* Str_).  Amounts are whole numbers of currency units.                    *)
(***************************************************************************)
EXTENDS Integers, Sequences, FiniteSets, TLC

VARIABLES
    tables,        \* names of the tables that exist in boleto.db
    apartamentos,  \* rows of table apartamentos
    seq,           \* sqlite_sequence of apartamentos (AUTOINCREMENT)
    configs,       \* rows of table configs
    lanc_schema,   \* column layout of table lancamentos: "legacy" | "new"
    lancamentos,   \* rows of table lancamentos
    config,        \* rows of the legacy table config
    now,           \* the clock behind datetime('now')
    lastOp,        \* the last call made and its arguments
    err,           \* how the last call ended: "ok" or the error raised/shown
    ret,           \* what the last call returned
    start_lanc,    \* history: rows the legacy ledger held before the first init_db
    repeated,      \* history: the last call repeated the call before it
    auth_ok,       \* st.session_state["auth_ok"] of the session at the screen
    calls          \* the upsert_lancamento call each concurrent session is in

vars == <<tables, apartamentos, seq, configs, lanc_schema, lancamentos, config,
          now, lastOp, err, ret, start_lanc, repeated, auth_ok, calls>>

store == <<tables, apartamentos, seq, configs, lanc_schema, lancamentos, config>>

-----------------------------------------------------------------------------
\* Bounds of the model.
MaxApts == 2
MaxClock == 2
MaxSessions == 2

\* Program constants.
DEFAULT_DIA == 5
ALLOWED_CODES == {"133", "735", "169"}

-----------------------------------------------------------------------------
\* Texts.
NULL == <<"NULL">>
Empty == <<>>

RECURSIVE lstrip(_)
lstrip(s) == IF s = <<>> THEN s
             ELSE IF Head(s) = " " THEN lstrip(Tail(s)) ELSE s

RECURSIVE rstrip(_)
rstrip(s) == IF s = <<>> THEN s
             ELSE IF s[Len(s)] = " " THEN rstrip(SubSeq(s, 1, Len(s) - 1)) ELSE s

\* str.strip()
strip(s) == rstrip(lstrip(s))

\* Python truthiness of a text value: None and "" are falsy.
TruthyText(s) == s # NULL /\ s # Empty

\* x or d, for texts
OrText(s, d) == IF TruthyText(s) THEN s ELSE d

\* Tagged numbers.
Num(n) == [k |-> "num", v |-> n]
None_ == [k |-> "none", v |-> 0]
Str_ == [k |-> "str", v |-> 0]      \* a text that is no number, such as "abc"

\* Python truthiness of a number-or-None: None and 0 are falsy.
TruthyNum(x) == (x.k = "num" /\ x.v # 0) \/ x.k = "str"

\* x or d, for tagged numbers
OrNum(x, d) == IF TruthyNum(x) THEN x ELSE d

\* dict.get(key, default)
Get(d, key, default) == IF key \in DOMAIN d THEN d[key] ELSE default

\* Literals of the source.
DEF_IMOVEL == <<"Rua Abraham Palatnik, 100 - Apto 301 - Bloco 7">>
DEF_BAIRRO == <<"Recreio dos Bandeirantes - Rio de Janeiro/RJ">>
DEF_APELIDO == <<"Abraham Palatnik 100/301/7">>
MIG_APELIDO == <<"Imovel 1">>

-----------------------------------------------------------------------------
\* Columns.
CfgTextCols == {"locador_nome", "locador_doc", "locatario_nome", "locatario_doc",
                "banco", "agencia", "conta", "tipo_conta", "titular",
                "titular_doc", "pix", "contato_comprovante"}
CfgCols == {"apartamento_id", "vencimento_dia"} \cup CfgTextCols

AmountCols == {"aluguel", "condominio", "iptu", "consumo_agua",
               "seguro_incendio", "outras_taxas", "outros_descontos"}
ObsOf(c) == CASE c = "aluguel" -> "aluguel_obs"
              [] c = "condominio" -> "condominio_obs"
              [] c = "iptu" -> "iptu_obs"
              [] c = "consumo_agua" -> "consumo_agua_obs"
              [] c = "seguro_incendio" -> "seguro_incendio_obs"
              [] c = "outras_taxas" -> "outras_taxas_obs"
              [] c = "outros_descontos" -> "outros_descontos_obs"
ObsCols == {ObsOf(c) : c \in AmountCols}

\* A snapshot of the store, handed to the functions below.
DB == [tables |-> tables, apartamentos |-> apartamentos, seq |-> seq,
       configs |-> configs, lanc_schema |-> lanc_schema,
       lancamentos |-> lancamentos, config |-> config]

\* conn.commit(): the store becomes d.
Commit(d) ==
    /\ tables' = d.tables
    /\ apartamentos' = d.apartamentos
    /\ seq' = d.seq
    /\ configs' = d.configs
    /\ lanc_schema' = d.lanc_schema
    /\ lancamentos' = d.lancamentos
    /\ config' = d.config

\* The outcome of a call: the store it leaves, how it ended, what it returned.
Out(d, e, r) == [db |-> d, err |-> e, ret |-> r]

Ids(d) == {a.id : a \in d.apartamentos}

Max(S) == CHOOSE x \in S : \A y \in S : y <= x

\* table_exists(cur, name)
table_exists(d, name) == name \in d.tables
-----------------------------------------------------------------------------
\* Rows.
AptRow(id, apelido, imovel, bairro) ==
    [id |-> id, apelido |-> apelido, imovel |-> imovel, bairro |-> bairro]

\* A configs row: apartamento_id, vencimento_dia and the twelve text columns.
ConfigRow(id, dia, txt) ==
    [c \in CfgCols |-> IF c = "apartamento_id" THEN id
                       ELSE IF c = "vencimento_dia" THEN dia
                       ELSE txt[c]]

\* INSERT INTO configs (apartamento_id, vencimento_dia) VALUES (?, 5):
\* every other column is NULL.
DefaultConfig(id) == ConfigRow(id, DEFAULT_DIA, [c \in CfgTextCols |-> NULL])

\* The id AUTOINCREMENT hands out next.
NextId(d) == Max({d.seq} \cup Ids(d)) + 1

\* int(x or 5) of a tagged number; the text "abc" makes int() raise.
IntOr5(x) == OrNum(x, Num(DEFAULT_DIA)).v
IntRaises(x) == OrNum(x, Num(DEFAULT_DIA)).k = "str"

\* float(x or 0.0) of a tagged number (migration of a legacy amount).
FloatOr0(x) == OrNum(x, Num(0)).v

LancCols == {"apartamento_id", "mes", "created_at", "updated_at"}
            \cup AmountCols \cup ObsCols

\* A lancamentos row of the new layout.
LancRow(id, mes, amt, obs, created, updated) ==
    [c \in LancCols |-> IF c = "apartamento_id" THEN id
                        ELSE IF c = "mes" THEN mes
                        ELSE IF c = "created_at" THEN created
                        ELSE IF c = "updated_at" THEN updated
                        ELSE IF c \in AmountCols THEN amt[c]
                        ELSE obs[c]]

HasKey(rows, id, mes) == \E r \in rows : r["apartamento_id"] = id /\ r["mes"] = mes

-----------------------------------------------------------------------------
\* init_db, lines 111-173: CREATE TABLE IF NOT EXISTS for the three tables.
\* A table that already exists, whatever its columns, is left as it is.
create_tables(d) ==
    [d EXCEPT !.tables = d.tables \cup {"apartamentos", "configs", "lancamentos"},
              !.lanc_schema = IF "lancamentos" \in d.tables THEN d.lanc_schema
                              ELSE "new"]

\* init_db, lines 188-222: the first property and its configuration, from the
\* legacy config row.
\* A mutant that seeds the default property whatever the legacy row holds.
seed_from_config_ignored(d, old_cfg) ==
    LET apt_id == NextId(d)
    IN  [d EXCEPT !.apartamentos = d.apartamentos
                        \cup {AptRow(apt_id, DEF_APELIDO, DEF_IMOVEL, DEF_BAIRRO)},
                  !.seq = apt_id,
                  !.configs = d.configs \cup {DefaultConfig(apt_id)}]

seed_from_config(d, old_cfg) ==
    LET imovel == strip(OrText(Get(old_cfg, "imovel", NULL), DEF_IMOVEL))
        bairro == strip(OrText(Get(old_cfg, "bairro", NULL), DEF_BAIRRO))
        apt_id == NextId(d)
        dia == Get(old_cfg, "vencimento_dia", None_)
        row == ConfigRow(apt_id, IntOr5(dia),
                         [c \in CfgTextCols |-> Get(old_cfg, c, Empty)])
    IN  [d EXCEPT !.apartamentos = d.apartamentos
                        \cup {AptRow(apt_id, MIG_APELIDO, imovel, bairro)},
                  !.seq = apt_id,
                  !.configs = d.configs \cup {row}]

\* init_db, lines 226-236: the default property and its configuration.
seed_default(d) ==
    LET apt_id == NextId(d)
    IN  [d EXCEPT !.apartamentos = d.apartamentos
                        \cup {AptRow(apt_id, DEF_APELIDO, DEF_IMOVEL, DEF_BAIRRO)},
                  !.seq = apt_id,
                  !.configs = d.configs \cup {DefaultConfig(apt_id)}]

\* init_db, lines 251-274: one row of the old ledger written under apt_id with
\* INSERT OR IGNORE; taxa_admin and desconto are the older names of
\* consumo_agua and outros_descontos.
migrated_row(old, apt_id, t) ==
    LET amt == [c \in AmountCols |->
                  IF c = "consumo_agua"
                  THEN FloatOr0(OrNum(Get(old, "consumo_agua", None_),
                                      Get(old, "taxa_admin", None_)))
                  ELSE IF c = "outros_descontos"
                  THEN FloatOr0(OrNum(Get(old, "outros_descontos", None_),
                                      Get(old, "desconto", None_)))
                  ELSE FloatOr0(Get(old, c, None_))]
    IN  LancRow(apt_id, Get(old, "mes", NULL), amt, [c \in ObsCols |-> Empty], t, t)

RECURSIVE migrate_rows(_, _, _, _)
migrate_rows(todo, rows, apt_id, t) ==
    IF todo = {} THEN rows
    ELSE LET r == CHOOSE x \in todo : TRUE
             new == migrated_row(r, apt_id, t)
         IN  migrate_rows(todo \ {r},
                          IF HasKey(rows, apt_id, new["mes"]) THEN rows
                          ELSE rows \cup {new},
                          apt_id, t)

\* init_db, lines 240-276: the old ledger is read from, and written to, the
\* table named lancamentos.  When that table still has the legacy layout the
\* INSERT names a column it does not have and sqlite3 raises OperationalError;
\* the property and its configuration were committed at line 238.
migrate_lancamentos(d, apt_id, t) ==
    IF d.lancamentos = {} THEN Out(d, "ok", NULL)
    ELSE IF d.lanc_schema = "legacy" THEN Out(d, "OperationalError", NULL)
    ELSE Out([d EXCEPT !.lancamentos =
                  migrate_rows(d.lancamentos, d.lancamentos, apt_id, t)],
             "ok", NULL)

\* init_db, lines 175-182: the migration runs only on a store without
\* properties.
\* A mutant that seeds on every start.
needs_seed_always(d) == TRUE

needs_seed(d) == Cardinality(d.apartamentos) = 0

\* init_db()
init_db(d, t) ==
    LET d1 == create_tables(d)
        old_config_exists == table_exists(d1, "config")
        old_lanc_exists == table_exists(d1, "lancamentos")
        rows1 == {r \in d1.config : r.id = 1}
    IN  IF ~needs_seed(d1) THEN Out(d1, "ok", NULL)
        ELSE IF old_config_exists /\ rows1 # {}
                /\ IntRaises(Get(CHOOSE r \in rows1 : TRUE, "vencimento_dia", None_))
        THEN Out(d1, "ValueError", NULL)
        ELSE LET d2 == IF old_config_exists /\ rows1 # {}
                       THEN seed_from_config(d1, CHOOSE r \in rows1 : TRUE)
                       ELSE seed_default(d1)
             IN  IF old_lanc_exists
                 THEN migrate_lancamentos(d2, d2.seq, t)
                 ELSE Out(d2, "ok", NULL)

-----------------------------------------------------------------------------
\* create_apartamento(apelido, imovel, bairro): both INSERTs are one
\* transaction; a configs row already holding the new id makes the second
\* INSERT raise IntegrityError and the first is rolled back.
\* A mutant that inserts the property without its configuration.
create_apartamento_no_config(d, apelido, imovel, bairro) ==
    LET apt_id == NextId(d)
    IN  Out([d EXCEPT !.apartamentos = d.apartamentos
                        \cup {AptRow(apt_id, strip(apelido), strip(imovel), strip(bairro))},
                      !.seq = apt_id],
            "ok", apt_id)

create_apartamento(d, apelido, imovel, bairro) ==
    LET apt_id == NextId(d)
    IN  IF \E c \in d.configs : c["apartamento_id"] = apt_id
        THEN Out(d, "IntegrityError", NULL)
        ELSE Out([d EXCEPT !.apartamentos = d.apartamentos
                        \cup {AptRow(apt_id, strip(apelido), strip(imovel), strip(bairro))},
                           !.seq = apt_id,
                           !.configs = d.configs \cup {DefaultConfig(apt_id)}],
                 "ok", apt_id)

\* The handler of "Criar imovel", lines 668-675: a blank field shows an error
\* and nothing is created.
\* A mutant that tests the fields as typed, without strip().
criar_imovel_untrimmed_test(d, apelido_novo, imovel_novo, bairro_novo) ==
    IF apelido_novo = Empty \/ imovel_novo = Empty \/ bairro_novo = Empty
    THEN Out(d, "ValidationError", NULL)
    ELSE create_apartamento(d, apelido_novo, imovel_novo, bairro_novo)

criar_imovel(d, apelido_novo, imovel_novo, bairro_novo) ==
    IF strip(apelido_novo) = Empty \/ strip(imovel_novo) = Empty
       \/ strip(bairro_novo) = Empty
    THEN Out(d, "ValidationError", NULL)
    ELSE create_apartamento(d, apelido_novo, imovel_novo, bairro_novo)

\* update_apartamento(apt_id, apelido, imovel, bairro): an UPDATE ... WHERE id=?
\* that matches no row changes nothing and raises nothing.
update_apartamento(d, apt_id, apelido, imovel, bairro) ==
    Out([d EXCEPT !.apartamentos =
            {IF a.id = apt_id
             THEN AptRow(apt_id, strip(apelido), strip(imovel), strip(bairro))
             ELSE a : a \in d.apartamentos}],
        "ok", NULL)

\* The dict load_config returns: the configs row without its key.
ConfigDict(row) == [c \in CfgCols \ {"apartamento_id"} |-> row[c]]

\* load_config(apt_id): a missing row is inserted with due day 5 and read again.
load_config(d, apt_id) ==
    LET found == {c \in d.configs : c["apartamento_id"] = apt_id}
    IN  IF found = {}
        THEN Out([d EXCEPT !.configs = d.configs \cup {DefaultConfig(apt_id)}],
                 "ok", ConfigDict(DefaultConfig(apt_id)))
        ELSE Out(d, "ok", ConfigDict(CHOOSE c \in found : TRUE))

\* save_config(apt_id, cfg): UPDATE configs ... WHERE apartamento_id=?; a key
\* that matches no row changes nothing and raises nothing.
save_config(d, apt_id, cfg) ==
    LET dia == Get(cfg, "vencimento_dia", None_)
        row == ConfigRow(apt_id, IntOr5(dia),
                         [c \in CfgTextCols |-> Get(cfg, c, Empty)])
    IN  IF IntRaises(dia) THEN Out(d, "ValueError", NULL)
        ELSE Out([d EXCEPT !.configs =
                     {IF c["apartamento_id"] = apt_id THEN row ELSE c : c \in d.configs}],
                 "ok", NULL)
-----------------------------------------------------------------------------
\* Month tokens.
Digits == <<"0", "1", "2", "3", "4", "5", "6", "7", "8", "9">>
IsDigit(c) == \E i \in 1..Len(Digits) : Digits[i] = c
DigitVal(c) == (CHOOSE i \in 1..Len(Digits) : Digits[i] = c) - 1

\* str.split(sep): the parts between the separators.
RECURSIVE split(_, _)
split(s, sep) ==
    IF \A i \in 1..Len(s) : s[i] # sep THEN <<s>>
    ELSE LET i == CHOOSE j \in 1..Len(s) :
                      s[j] = sep /\ \A h \in 1..(j - 1) : s[h] # sep
         IN  <<SubSeq(s, 1, i - 1)>> \o split(SubSeq(s, i + 1, Len(s)), sep)

RECURSIVE DigitsVal(_)
DigitsVal(ds) == IF ds = <<>> THEN 0
                 ELSE DigitsVal(SubSeq(ds, 1, Len(ds) - 1)) * 10 + DigitVal(ds[Len(ds)])

\* int(text): blanks around, an optional sign, then digits; anything else raises.
Unsigned(s) == IF s # <<>> /\ (Head(s) = "-" \/ Head(s) = "+") THEN Tail(s) ELSE s
IntOk(s) == LET u == Unsigned(strip(s))
            IN  u # <<>> /\ \A i \in 1..Len(u) : IsDigit(u[i])
IntOf(s) == LET t == strip(s)
                n == DigitsVal(Unsigned(t))
            IN  IF Head(t) = "-" THEN 0 - n ELSE n

RECURSIVE NatText(_)
NatText(n) == IF n < 10 THEN <<Digits[n + 1]>>
              ELSE NatText(n \div 10) \o <<Digits[(n % 10) + 1]>>

RECURSIVE Zeros(_)
Zeros(n) == IF n <= 0 THEN <<>> ELSE <<"0">> \o Zeros(n - 1)

\* f"{n:0wd}": zero-padded to width w, the sign counted in the width.
Pad(n, w) == IF n < 0
             THEN <<"-">> \o Zeros(w - 1 - Len(NatText(0 - n))) \o NatText(0 - n)
             ELSE Zeros(w - Len(NatText(n))) \o NatText(n)

\* mes_to_display('2026-02') = '02/2026'; a token it cannot take apart is
\* returned as it came.
mes_to_display(mes_aaaa_mm) ==
    LET parts == split(mes_aaaa_mm, "-")
    IN  IF Len(parts) = 2 /\ IntOk(parts[1]) /\ IntOk(parts[2])
        THEN Pad(IntOf(parts[2]), 2) \o <<"/">> \o Pad(IntOf(parts[1]), 4)
        ELSE mes_aaaa_mm

\* A mutant of display_to_mes that does not pad the year.
display_to_mes_year_unpadded(display_mm_aaaa) ==
    LET parts == split(display_mm_aaaa, "/")
    IN  IF Len(parts) = 2 /\ IntOk(parts[1]) /\ IntOk(parts[2])
        THEN Pad(IntOf(parts[2]), 1) \o <<"-">> \o Pad(IntOf(parts[1]), 2)
        ELSE display_mm_aaaa

\* display_to_mes('02/2026') = '2026-02'; a text it cannot take apart is
\* returned as it came.
display_to_mes(display_mm_aaaa) ==
    LET parts == split(display_mm_aaaa, "/")
    IN  IF Len(parts) = 2 /\ IntOk(parts[1]) /\ IntOk(parts[2])
        THEN Pad(IntOf(parts[2]), 4) \o <<"-">> \o Pad(IntOf(parts[1]), 2)
        ELSE display_mm_aaaa

\* The order of ORDER BY mes (BINARY collation): byte by byte, a proper
\* prefix first.
Chars == <<" ", "+", "-", "/", "0", "1", "2", "3", "4", "5", "6", "7", "8", "9",
           "a", "b", "c">>
Rank(c) == CHOOSE i \in 1..Len(Chars) : Chars[i] = c

RECURSIVE TextLess(_, _)
TextLess(a, b) ==
    IF b = <<>> THEN FALSE
    ELSE IF a = <<>> THEN TRUE
    ELSE IF Head(a) = Head(b) THEN TextLess(Tail(a), Tail(b))
    ELSE Rank(Head(a)) < Rank(Head(b))

-----------------------------------------------------------------------------
\* The dict get_lancamento and get_latest_lancamento build from a row:
\* mes, and each amount "or 0.0", each note "or ''".
LancDict(row) ==
    [c \in {"mes"} \cup AmountCols \cup ObsCols |->
        IF c \in ObsCols THEN OrText(row[c], Empty) ELSE row[c]]

\* get_lancamento(apt_id, mes): the SELECT names apartamento_id and the note
\* columns, which a table of the legacy layout does not have.
get_lancamento(d, apt_id, mes) ==
    LET found == {r \in d.lancamentos : r["apartamento_id"] = apt_id /\ r["mes"] = mes}
    IN  IF d.lanc_schema = "legacy" THEN Out(d, "OperationalError", NULL)
        ELSE IF found = {} THEN Out(d, "ok", NULL)
        ELSE Out(d, "ok", LancDict(CHOOSE r \in found : TRUE))

\* A mutant of get_latest_lancamento that orders by mes ascending.
get_latest_lancamento_asc(d, apt_id) ==
    LET mine == {r \in d.lancamentos : r["apartamento_id"] = apt_id}
    IN  IF d.lanc_schema = "legacy" THEN Out(d, "OperationalError", NULL)
        ELSE IF mine = {} THEN Out(d, "ok", NULL)
        ELSE Out(d, "ok", LancDict(CHOOSE r \in mine :
                    \A q \in mine : ~TextLess(q["mes"], r["mes"])))

\* get_latest_lancamento(apt_id): ORDER BY mes DESC LIMIT 1.
get_latest_lancamento(d, apt_id) ==
    LET mine == {r \in d.lancamentos : r["apartamento_id"] = apt_id}
    IN  IF d.lanc_schema = "legacy" THEN Out(d, "OperationalError", NULL)
        ELSE IF mine = {} THEN Out(d, "ok", NULL)
        ELSE Out(d, "ok", LancDict(CHOOSE r \in mine :
                    \A q \in mine : ~TextLess(r["mes"], q["mes"])))

\* float(data.get(c, 0.0)) for the seven amounts, in the order of the call:
\* None raises TypeError, a text that is no number raises ValueError.
AmountSeq == <<"aluguel", "condominio", "iptu", "consumo_agua",
               "seguro_incendio", "outras_taxas", "outros_descontos">>
FloatErr(x) == IF x.k = "none" THEN "TypeError"
               ELSE IF x.k = "str" THEN "ValueError" ELSE "ok"
BadAmounts(data) == {i \in 1..Len(AmountSeq) :
                        FloatErr(Get(data, AmountSeq[i], Num(0))) # "ok"}
FirstFloatErr(data) ==
    IF BadAmounts(data) = {} THEN "ok"
    ELSE LET i == CHOOSE j \in BadAmounts(data) : \A h \in BadAmounts(data) : j <= h
         IN  FloatErr(Get(data, AmountSeq[i], Num(0)))

\* The row the INSERT of upsert_lancamento proposes.
upsert_row(apt_id, mes, data, created, updated) ==
    LancRow(apt_id, mes,
            [c \in AmountCols |-> Get(data, c, Num(0)).v],
            [c \in ObsCols |-> OrText(Get(data, c, Empty), Empty)],
            created, updated)

\* INSERT ... ON CONFLICT(apartamento_id, mes) DO UPDATE SET ...: the row with
\* the key, if any, takes the new amounts, notes and updated_at and keeps its
\* created_at; otherwise the row is inserted.
\* A mutant that inserts without looking for the key.
on_conflict_insert_only(rows, apt_id, mes, data, t) ==
    rows \cup {upsert_row(apt_id, mes, data, t, t)}

\* A mutant whose conflict branch adds the amounts to the stored ones.
on_conflict_accumulate(rows, apt_id, mes, data, t) ==
    IF HasKey(rows, apt_id, mes)
    THEN {IF r["apartamento_id"] = apt_id /\ r["mes"] = mes
          THEN LancRow(apt_id, mes,
                       [c \in AmountCols |-> r[c] + Get(data, c, Num(0)).v],
                       [c \in ObsCols |-> OrText(Get(data, c, Empty), Empty)],
                       r["created_at"], t)
          ELSE r : r \in rows}
    ELSE rows \cup {upsert_row(apt_id, mes, data, t, t)}

\* A mutant whose conflict branch takes the new amounts and keeps the notes.
on_conflict_amounts_only(rows, apt_id, mes, data, t) ==
    IF HasKey(rows, apt_id, mes)
    THEN {IF r["apartamento_id"] = apt_id /\ r["mes"] = mes
          THEN LancRow(apt_id, mes,
                       [c \in AmountCols |-> Get(data, c, Num(0)).v],
                       [c \in ObsCols |-> r[c]],
                       r["created_at"], t)
          ELSE r : r \in rows}
    ELSE rows \cup {upsert_row(apt_id, mes, data, t, t)}

\* A mutant that replaces the row of the key, created_at included.
on_conflict_replace(rows, apt_id, mes, data, t) ==
    {r \in rows : ~(r["apartamento_id"] = apt_id /\ r["mes"] = mes)}
        \cup {upsert_row(apt_id, mes, data, t, t)}

on_conflict_do_update(rows, apt_id, mes, data, t) ==
    IF HasKey(rows, apt_id, mes)
    THEN {IF r["apartamento_id"] = apt_id /\ r["mes"] = mes
          THEN upsert_row(apt_id, mes, data, r["created_at"], t)
          ELSE r : r \in rows}
    ELSE rows \cup {upsert_row(apt_id, mes, data, t, t)}

\* upsert_lancamento(apt_id, mes, data)
upsert_lancamento(d, apt_id, mes, data, t) ==
    IF FirstFloatErr(data) # "ok" THEN Out(d, FirstFloatErr(data), NULL)
    ELSE IF d.lanc_schema = "legacy" THEN Out(d, "OperationalError", NULL)
    ELSE Out([d EXCEPT !.lancamentos =
                 on_conflict_do_update(d.lancamentos, apt_id, mes, data, t)],
             "ok", NULL)
-----------------------------------------------------------------------------
\* Tab 2, lines 772-777: the month key and the record the fields start from.
month_key(mes_input) == display_to_mes(strip(mes_input))

NoneDict == [none |-> TRUE]
IsNone(x) == "none" \in DOMAIN x
AsDict(r) == IF r = NULL THEN NoneDict ELSE r

\* base = existing if existing else get_latest_lancamento(apt_id): the latest
\* record is looked up only when the month has none.
\* A mutant that takes the latest record whenever the property has one.
base_latest_first(d, apt_id, existing) ==
    LET l == get_latest_lancamento(d, apt_id)
    IN  IF l.err # "ok" THEN l
        ELSE IF l.ret # NULL THEN l
        ELSE Out(d, "ok", existing)

base_of(d, apt_id, existing) ==
    IF existing # NULL THEN Out(d, "ok", existing)
    ELSE get_latest_lancamento(d, apt_id)

\* val_obs_row, lines 779-794: the value each entry field is created with.
prefill(base) ==
    [c \in AmountCols \cup ObsCols |->
        IF IsNone(base) THEN (IF c \in AmountCols THEN 0 ELSE Empty)
        ELSE IF c \in AmountCols THEN Get(base, c, 0)
        ELSE Get(base, c, Empty)]

\* The reads of tab 2 for (apt_id, mes) and the values its fields get.
tab2_reads(d, apt_id, mes) ==
    LET e == get_lancamento(d, apt_id, mes)
        b == base_of(d, apt_id, e.ret)
    IN  IF e.err # "ok" THEN e
        ELSE IF b.err # "ok" THEN b
        ELSE Out(d, "ok", prefill(AsDict(b.ret)))

\* Tab 2, lines 810-811: the totals shown under the entry fields, computed
\* from the values of the widgets (the payload).
tab2_totals(payload) ==
    LET subtotal == payload["aluguel"].v + payload["condominio"].v + payload["iptu"].v
                    + payload["consumo_agua"].v + payload["seguro_incendio"].v
                    + payload["outras_taxas"].v
    IN  [subtotal |-> subtotal, total |-> subtotal - payload["outros_descontos"].v]

\* generate_pdf_bytes, lines 531-545: the figures of the statement.
\* A mutant that never lets the total fall below zero.
pdf_totals_clamped(lanc) ==
    LET subtotal == lanc["aluguel"] + lanc["condominio"] + lanc["iptu"]
                    + lanc["consumo_agua"] + lanc["seguro_incendio"]
                    + lanc["outras_taxas"]
        total == subtotal - lanc["outros_descontos"]
    IN  [subtotal |-> subtotal, total |-> IF total < 0 THEN 0 ELSE total]

pdf_totals(lanc) ==
    LET subtotal == lanc["aluguel"] + lanc["condominio"] + lanc["iptu"]
                    + lanc["consumo_agua"] + lanc["seguro_incendio"]
                    + lanc["outras_taxas"]
    IN  [subtotal |-> subtotal, total |-> subtotal - lanc["outros_descontos"]]

generate_pdf_bytes(cfg, lanc) ==
    [mes |-> lanc["mes"],
     subtotal |-> pdf_totals(lanc).subtotal,
     total |-> pdf_totals(lanc).total,
     dia |-> IntOr5(Num(cfg["vencimento_dia"])),
     ref_mm_aaaa |-> mes_to_display(lanc["mes"])]

\* list_lancamentos(apt_id): mes and the seven amounts of the property's
\* rows, ORDER BY mes DESC.
ListDict(row) == [c \in {"mes"} \cup AmountCols |-> row[c]]

RECURSIVE order_by_mes_desc(_)
order_by_mes_desc(rows) ==
    IF rows = {} THEN <<>>
    ELSE LET top == CHOOSE r \in rows : \A q \in rows : ~TextLess(r["mes"], q["mes"])
         IN  <<top>> \o order_by_mes_desc(rows \ {top})

list_lancamentos(d, apt_id) ==
    LET mine == {r \in d.lancamentos : r["apartamento_id"] = apt_id}
        sorted == order_by_mes_desc(mine)
    IN  IF d.lanc_schema = "legacy" THEN Out(d, "OperationalError", NULL)
        ELSE Out(d, "ok", [i \in 1..Len(sorted) |-> ListDict(sorted[i])])

\* Tab 3, lines 857-876: one line of the history table per listed record.
tab3_totals(r) ==
    LET subtotal == r["aluguel"] + r["condominio"] + r["iptu"]
                    + r["consumo_agua"] + r["seguro_incendio"] + r["outras_taxas"]
    IN  [subtotal |-> subtotal, total |-> subtotal - r["outros_descontos"]]

table_rows(rows) ==
    [i \in 1..Len(rows) |-> [mes |-> rows[i]["mes"],
                             Mes |-> mes_to_display(rows[i]["mes"]),
                             Total |-> tab3_totals(rows[i]).total]]

-----------------------------------------------------------------------------
\* Inputs.
TA == <<"a">>
TB == <<"b">>
TPad == <<" ", "a", " ">>
Blank == <<" ">>

M2601 == <<"2", "0", "2", "6", "-", "0", "1">>
M2602 == <<"2", "0", "2", "6", "-", "0", "2">>
D0126 == <<"0", "1", "/", "2", "0", "2", "6">>
D226 == <<" ", "2", "/", "2", "0", "2", "6">>

\* What the user types in "Mes (MM/AAAA)".
MesInputs == {D0126, D226}

ColIdx(c) == CHOOSE i \in 1..Len(AmountSeq) : AmountSeq[i] = c \/ ObsOf(AmountSeq[i]) = c

\* The payload tab 2 builds from its fourteen widgets: amounts >= 0, notes texts.
MkPayload(a, o) ==
    [c \in AmountCols \cup ObsCols |-> IF c \in AmountCols THEN Num(a[ColIdx(c)])
                                       ELSE o[ColIdx(c)]]

PX == MkPayload(<<1500, 300, 50, 40, 20, 0, 80>>,
                <<TA, Empty, Empty, Empty, Empty, Empty, TB>>)
PY == MkPayload(<<2, 0, 0, 0, 0, 1, 5>>,
                <<TB, TA, Empty, Empty, Empty, Empty, Empty>>)
Payloads == {PX, PY}

\* What the user types in the property forms.
CriarInputs == {<<TPad, TB, TPad>>, <<Blank, TB, TB>>, <<TA, Empty, TB>>,
                <<TA, TB, Blank>>}
EditInputs == {<<TPad, TA, TA>>, <<Empty, TB, Blank>>}

\* What the form of tab 1 submits: a due day within 1..28 and twelve texts.
MkCfg(dia, t) ==
    [c \in CfgTextCols \cup {"vencimento_dia"} |-> IF c = "vencimento_dia" THEN dia ELSE t]
FormCfgs == {MkCfg(Num(10), TA), MkCfg(Num(28), Empty)}

\* What a direct call of save_config may be handed.
CallCfgs == {MkCfg(None_, TA), MkCfg(Num(0), TB), MkCfg(Num(0 - 3), TA),
             [locador_nome |-> TB]}

\* What a direct call of upsert_lancamento may be handed: an amount that is
\* None, a text that is no number, or negative; keys left out; a note None.
CallPayloads == {[PX EXCEPT !["aluguel"] = None_],
                 [PY EXCEPT !["iptu"] = Str_],
                 [PX EXCEPT !["condominio"] = Num(0 - 5)],
                 [aluguel |-> Num(7), aluguel_obs |-> NULL]}

\* Month texts handed to the two conversions: the tokens YYYY-MM of some
\* years, and texts that are no token.
Years == {0, 7, 999, 1000, 2026, 9999, 10000}
MonthTokens == {Pad(y, 4) \o <<"-">> \o Pad(m, 2) : y \in Years, m \in 1..12}
OddMonths == {<<"2", "0", "2", "6", "-", "1">>, <<"2", "6", "-", "0", "1">>,
              <<"2", "0", "2", "6", "-", "1", "3">>, <<"1", "/", "2", "0", "2", "6">>,
              <<"a", "b", "c">>, D226}
MonthInputs == MonthTokens \cup OddMonths

\* "Mes (MM/AAAA)" is a free text field: what the user may leave in it.
D1326 == <<"1", "3", "/", "2", "0", "2", "6">>
D126 == <<"1", "/", "2", "6">>
D0110000 == <<"0", "1", "/", "1", "0", "0", "0", "0">>
OrdMesInputs == {D0126, D226, D0110000}
FreeMesInputs == {D0126, D1326, D126, D0110000, <<"a", "b", "c">>, Empty}

\* What the user may type in "Senha (3 digitos)" (max_chars=3).
CodeInputs == ALLOWED_CODES \cup {"000", "13", ""}

\* Legacy stores: the table config (one row, id = 1) and the table lancamentos
\* keyed by mes alone.
OldCfgFull ==
    [id |-> 1, imovel |-> TPad, bairro |-> TB, locador_nome |-> TA,
     locador_doc |-> TB, locatario_nome |-> TA, locatario_doc |-> NULL,
     vencimento_dia |-> Num(10), banco |-> TA, agencia |-> TA, conta |-> TA,
     tipo_conta |-> TB, titular |-> TA, titular_doc |-> TB, pix |-> TA]
OldCfgBare ==
    [id |-> 1, locador_nome |-> TB, locatario_nome |-> TA,
     vencimento_dia |-> None_, imovel |-> Empty, bairro |-> NULL]
OldCfgZero ==
    [id |-> 1, locador_nome |-> TA, vencimento_dia |-> Num(0)]

OldLanc1 == [mes |-> M2601, aluguel |-> Num(1500), condominio |-> Num(300),
             iptu |-> None_, taxa_admin |-> Num(40), desconto |-> Num(80)]
OldLanc2 == [mes |-> M2602, aluguel |-> Num(1600), condominio |-> Num(300),
             iptu |-> Num(50), taxa_admin |-> None_, desconto |-> None_]

NoTable == [exists |-> FALSE, rows |-> {}]
Table(rows) == [exists |-> TRUE, rows |-> rows]

ConfigStarts == {NoTable, Table({}), Table({OldCfgFull}), Table({OldCfgBare}),
                 Table({OldCfgZero})}
LancStarts == {NoTable, Table({}), Table({OldLanc1}), Table({OldLanc1, OldLanc2})}

-----------------------------------------------------------------------------
\* Sessions that call the store at the same time, and a session that is in
\* no call.
Sessions == 1..MaxSessions
Idle == [pc |-> "idle"]

\* The state before the first start of the app: no table of the new model,
\* and whatever an earlier version of the app left; the user has passed the
\* access gate.
InitWith(cfgs, lancs) ==
    \E cs \in cfgs, ls \in lancs :
        /\ tables = (IF cs.exists THEN {"config"} ELSE {})
                    \cup (IF ls.exists THEN {"lancamentos"} ELSE {})
        /\ config = cs.rows
        /\ lancamentos = ls.rows
        /\ lanc_schema = IF ls.exists THEN "legacy" ELSE "new"
        /\ start_lanc = ls.rows
        /\ apartamentos = {}
        /\ configs = {}
        /\ seq = 0
        /\ now = 0
        /\ lastOp = [op |-> "none", args |-> <<>>]
        /\ err = "ok"
        /\ ret = NULL
        /\ repeated = FALSE
        /\ auth_ok = TRUE
        /\ calls = [s \in Sessions |-> Idle]

Init == InitWith(ConfigStarts, LancStarts)

\* The call ended: its store is committed and its outcome recorded.
Finish(o, op, args) ==
    /\ Commit(o.db)
    /\ err' = o.err
    /\ ret' = o.ret
    /\ lastOp' = [op |-> op, args |-> args]
    /\ repeated' = (lastOp = [op |-> op, args |-> args])
    /\ UNCHANGED <<now, start_lanc, auth_ok, calls>>

\* security_gate(), lines 18-51: the run goes on past line 51 only when
\* st.session_state["auth_ok"] is set; otherwise the gate draws the login
\* page and stops the run (st.stop()).
\* A mutant that lets every run through.
security_gate_open(auth) == TRUE

security_gate(auth) == auth

\* Every run of the script starts with init_db (line 633), lists the
\* properties and loads the configuration of the selected one (line 662);
\* a button handler then acts on the store those calls left.  An exception
\* ends the run where it is raised.
script_start(d, apt_id, t) ==
    LET i == init_db(d, t)
    IN  IF i.err # "ok" THEN i
        ELSE IF apt_id \in Ids(i.db) THEN load_config(i.db, apt_id)
        ELSE Out(i.db, "not selectable", NULL)

\* A run in which no button is pressed.
Rerun(apt_id) ==
    LET s == script_start(DB, apt_id, now)
    IN  /\ security_gate(auth_ok)
        /\ s.err # "not selectable"
        /\ s.err # "ok" => apt_id = 1
        /\ Finish(s, IF s.err = "ok" THEN "load_config" ELSE "init_db", <<apt_id>>)

\* "Criar imovel", lines 668-675.
CriarImovel(apt_id, apelido, imovel, bairro) ==
    LET s == script_start(DB, apt_id, now)
    IN  /\ security_gate(auth_ok)
        /\ s.err = "ok"
        /\ Cardinality(apartamentos) < MaxApts
        /\ Finish(criar_imovel(s.db, apelido, imovel, bairro),
                  "criar_imovel", <<apelido, imovel, bairro>>)

\* "Salvar imovel", lines 681-684.
SalvarImovel(apt_id, apelido, imovel, bairro) ==
    LET s == script_start(DB, apt_id, now)
    IN  /\ security_gate(auth_ok)
        /\ s.err = "ok"
        /\ Finish(update_apartamento(s.db, apt_id, apelido, imovel, bairro),
                  "update_apartamento", <<apt_id, apelido, imovel, bairro>>)

\* "Salvar configuracoes", lines 739-756.
SalvarConfig(apt_id, cfg) ==
    LET s == script_start(DB, apt_id, now)
    IN  /\ security_gate(auth_ok)
        /\ s.err = "ok"
        /\ Finish(save_config(s.db, apt_id, cfg), "save_config", <<apt_id, cfg>>)

\* Tab 2 is drawn for the month typed, lines 767-808.
AbrirMes(apt_id, mes_input) ==
    LET s == script_start(DB, apt_id, now)
        mes == month_key(mes_input)
        r == tab2_reads(s.db, apt_id, mes)
    IN  /\ security_gate(auth_ok)
        /\ s.err = "ok"
        /\ Finish(r, IF r.err = "ok" THEN "prefill" ELSE "get_lancamento",
                  <<apt_id, mes>>)

\* "Salvar mes", lines 831-833: the run draws tab 2, then saves the payload.
SalvarMes(apt_id, mes_input, payload) ==
    LET s == script_start(DB, apt_id, now)
        mes == month_key(mes_input)
        r == tab2_reads(s.db, apt_id, mes)
    IN  /\ security_gate(auth_ok)
        /\ s.err = "ok"
        /\ IF r.err # "ok" THEN Finish(r, "get_lancamento", <<apt_id, mes>>)
           ELSE Finish(upsert_lancamento(r.db, apt_id, mes, payload, now),
                       "upsert_lancamento", <<apt_id, mes, payload>>)

\* "Gerar PDF do mes", lines 836-840: the run draws tab 2 and its totals,
\* saves the payload, reads the configuration and the record back and renders
\* the statement.
GerarPdf(apt_id, mes_input, payload) ==
    LET s == script_start(DB, apt_id, now)
        mes == month_key(mes_input)
        r == tab2_reads(s.db, apt_id, mes)
        u == upsert_lancamento(r.db, apt_id, mes, payload, now)
        c == load_config(u.db, apt_id)
        l == get_lancamento(c.db, apt_id, mes)
    IN  /\ security_gate(auth_ok)
        /\ s.err = "ok"
        /\ IF r.err # "ok" THEN Finish(r, "get_lancamento", <<apt_id, mes>>)
           ELSE IF u.err # "ok" THEN Finish(u, "upsert_lancamento", <<apt_id, mes, payload>>)
           ELSE Finish(Out(l.db, "ok", [info |-> tab2_totals(payload),
                                        pdf |-> generate_pdf_bytes(c.ret, l.ret)]),
                       "generate_pdf_bytes", <<apt_id, mes, payload>>)

\* Tab 3 is drawn, lines 853-876: the history table of the property.  The run
\* draws tab 2 first (for whatever month its field holds), and ends there if
\* its reads raise.
Historico(apt_id) ==
    LET s == script_start(DB, apt_id, now)
        r == tab2_reads(s.db, apt_id, M2601)
        l == list_lancamentos(r.db, apt_id)
    IN  /\ security_gate(auth_ok)
        /\ s.err = "ok"
        /\ IF r.err # "ok" THEN Finish(r, "get_lancamento", <<apt_id, M2601>>)
           ELSE IF l.err # "ok" THEN Finish(l, "list_lancamentos", <<apt_id>>)
           ELSE Finish(Out(l.db, "ok", table_rows(l.ret)), "list_lancamentos", <<apt_id>>)

\* "Gerar PDF do mes selecionado", lines 887-890, for a month of the list.
GerarPdfSel(apt_id, i) ==
    LET s == script_start(DB, apt_id, now)
        rows == list_lancamentos(s.db, apt_id)
        mes_sel == rows.ret[i]["mes"]
        c == load_config(rows.db, apt_id)
        l == get_lancamento(c.db, apt_id, mes_sel)
    IN  /\ security_gate(auth_ok)
        /\ s.err = "ok"
        /\ rows.err = "ok"
        /\ i \in 1..Len(rows.ret)
        /\ Finish(Out(l.db, "ok", [pdf |-> generate_pdf_bytes(c.ret, l.ret)]),
                  "generate_pdf_sel", <<apt_id, mes_sel>>)

\* The two month conversions applied to the text at hand.
ToDisplay ==
    /\ ret' = mes_to_display(ret)
    /\ lastOp' = [op |-> "mes_to_display", args |-> <<ret>>]
    /\ UNCHANGED <<store, now, err, start_lanc, repeated, auth_ok, calls>>

ToMes ==
    /\ ret' = display_to_mes(ret)
    /\ lastOp' = [op |-> "display_to_mes", args |-> <<ret>>]
    /\ UNCHANGED <<store, now, err, start_lanc, repeated, auth_ok, calls>>

\* The login page, lines 25-47, is drawn by a run the gate stops.
\* "Entrar", lines 33-40: auth_ok is set by the code typed; a valid code
\* ends the run with st.rerun(), an invalid one shows the error.
Entrar(code) ==
    /\ ~security_gate(auth_ok)
    /\ auth_ok' = (code \in ALLOWED_CODES)
    /\ lastOp' = [op |-> "Entrar", args |-> <<code>>]
    /\ err' = IF code \in ALLOWED_CODES THEN "ok" ELSE "Senha invalida"
    /\ ret' = NULL
    /\ repeated' = (lastOp = lastOp')
    /\ UNCHANGED <<store, now, start_lanc, calls>>

\* "Limpar", lines 43-45.
Limpar ==
    /\ ~security_gate(auth_ok)
    /\ auth_ok' = FALSE
    /\ lastOp' = [op |-> "Limpar", args |-> <<>>]
    /\ err' = "ok"
    /\ ret' = NULL
    /\ repeated' = (lastOp = lastOp')
    /\ UNCHANGED <<store, now, start_lanc, calls>>

\* "Sair", lines 686-688: the run has passed the gate and started as every
\* run does; it clears auth_ok and ends with st.rerun().
Sair(apt_id) ==
    LET s == script_start(DB, apt_id, now)
    IN  /\ security_gate(auth_ok)
        /\ s.err = "ok"
        /\ Commit(s.db)
        /\ auth_ok' = FALSE
        /\ lastOp' = [op |-> "Sair", args |-> <<apt_id>>]
        /\ err' = "ok"
        /\ ret' = NULL
        /\ repeated' = (lastOp = lastOp')
        /\ UNCHANGED <<now, start_lanc, calls>>

\* A second passes.
Tick ==
    /\ now < MaxClock
    /\ now' = now + 1
    /\ UNCHANGED <<store, lastOp, err, ret, start_lanc, repeated, auth_ok, calls>>

\* The store functions called directly, with arguments no handler passes.
CallUpdateApartamento(apt_id, apelido, imovel, bairro) ==
    /\ table_exists(DB, "apartamentos")
    /\ Finish(update_apartamento(DB, apt_id, apelido, imovel, bairro),
              "update_apartamento", <<apt_id, apelido, imovel, bairro>>)

CallSaveConfig(apt_id, cfg) ==
    /\ table_exists(DB, "configs")
    /\ Finish(save_config(DB, apt_id, cfg), "save_config", <<apt_id, cfg>>)

\* upsert_lancamento called directly on a store the app has started on.
CallUpsertLancamento(apt_id, mes, data) ==
    /\ table_exists(DB, "apartamentos")
    /\ apt_id \in Ids(DB)
    /\ Finish(upsert_lancamento(DB, apt_id, mes, data, now),
              "upsert_lancamento", <<apt_id, mes, data>>)

\* upsert_lancamento called by session s while other sessions call it too.
\* The call is entered: the connection is opened and the arguments are built.
UpsertCall(s, apt_id, mes, data) ==
    /\ calls[s] = Idle
    /\ table_exists(DB, "lancamentos")
    /\ apt_id \in Ids(DB)
    /\ calls' = [calls EXCEPT ![s] = [pc |-> "waiting", apt_id |-> apt_id,
                                      mes |-> mes, data |-> data]]
    /\ UNCHANGED <<store, now, lastOp, err, ret, start_lanc, repeated, auth_ok>>

\* The write lock of the database file is held by a session from its
\* cur.execute(INSERT ...) to its conn.commit().
write_lock_free(c, s) == \A o \in Sessions \ {s} : c[o].pc # "executed"

\* cur.execute(INSERT ... ON CONFLICT ...), lines 441-497: SQLite makes the
\* statement wait while another connection holds the write lock (the busy
\* timeout of sqlite3.connect, 5 s; the holder commits in its next statement).
\* The statement then runs as a whole inside the session's transaction.
\* History: another session was in its call, waiting, when this one ran.
UpsertExecute(s) ==
    LET c == calls[s]
        o == upsert_lancamento(DB, c.apt_id, c.mes, c.data, now)
    IN  /\ c.pc = "waiting"
        /\ write_lock_free(calls, s)
        /\ calls' = [calls EXCEPT ![s] =
                        IF o.err = "ok"
                        THEN [pc |-> "executed", apt_id |-> c.apt_id, mes |-> c.mes,
                              data |-> c.data, rows |-> o.db.lancamentos,
                              raced |-> \E w \in Sessions \ {s} : calls[w].pc = "waiting"]
                        ELSE [pc |-> "done", apt_id |-> c.apt_id, mes |-> c.mes,
                              data |-> c.data, err |-> o.err, last |-> FALSE,
                              raced |-> FALSE]]
        /\ UNCHANGED <<store, now, lastOp, err, ret, start_lanc, repeated, auth_ok>>

\* conn.commit(), line 498: the transaction's rows become the table, and the
\* lock is released.  History: the call is the last committed one of its key.
UpsertCommit(s) ==
    LET c == calls[s]
    IN  /\ c.pc = "executed"
        /\ lancamentos' = c.rows
        /\ calls' = [o \in Sessions |->
                        IF o = s
                        THEN [pc |-> "done", apt_id |-> c.apt_id, mes |-> c.mes,
                              data |-> c.data, err |-> "ok", last |-> TRUE,
                              raced |-> c.raced]
                        ELSE IF calls[o].pc = "done" /\ calls[o].apt_id = c.apt_id
                                /\ calls[o].mes = c.mes
                        THEN [calls[o] EXCEPT !.last = FALSE]
                        ELSE calls[o]]
        /\ lastOp' = [op |-> "upsert_lancamento", args |-> <<c.apt_id, c.mes, c.data>>]
        /\ err' = "ok"
        /\ ret' = NULL
        /\ repeated' = (lastOp = lastOp')
        /\ UNCHANGED <<tables, apartamentos, seq, configs, lanc_schema, config,
                       now, start_lanc, auth_ok>>

\* The call has returned and the session is free for its next one.
UpsertReturn(s) ==
    /\ calls[s].pc = "done"
    /\ calls' = [calls EXCEPT ![s] = Idle]
    /\ UNCHANGED <<store, now, lastOp, err, ret, start_lanc, repeated, auth_ok>>

-----------------------------------------------------------------------------
AptIds == 1..MaxApts

DoRerun == \E a \in AptIds : Rerun(a)
DoCriarImovel == \E a \in AptIds, i \in CriarInputs : CriarImovel(a, i[1], i[2], i[3])
DoSalvarImovel == \E a \in AptIds, i \in EditInputs : SalvarImovel(a, i[1], i[2], i[3])
DoSalvarConfig == \E a \in AptIds, c \in FormCfgs : SalvarConfig(a, c)
DoAbrirMes == \E a \in AptIds, m \in MesInputs : AbrirMes(a, m)
DoSalvarMes == \E a \in AptIds, m \in MesInputs, p \in Payloads : SalvarMes(a, m, p)
DoCallUpdateApartamento ==
    \E a \in AptIds, i \in EditInputs : CallUpdateApartamento(a, i[1], i[2], i[3])
DoCallSaveConfig == \E a \in AptIds, c \in CallCfgs : CallSaveConfig(a, c)

DoCriarOne == \E a \in AptIds : CriarImovel(a, TA, TB, TB)
DoGerarPdf == \E a \in AptIds, m \in MesInputs, p \in Payloads : GerarPdf(a, m, p)
DoHistorico == \E a \in AptIds : Historico(a)
DoGerarPdfSel == \E a \in AptIds, i \in 1..Cardinality(MesInputs) : GerarPdfSel(a, i)
DoSalvarMesLivre == \E a \in AptIds, m \in FreeMesInputs : SalvarMes(a, m, PX)
DoSalvarMesOrd == \E a \in AptIds, m \in OrdMesInputs : SalvarMes(a, m, PX)
DoUpsertCall ==
    \E s \in Sessions, a \in AptIds, m \in {M2601, M2602}, p \in Payloads :
        UpsertCall(s, a, m, p)
DoUpsertExecute == \E s \in Sessions : UpsertExecute(s)
DoUpsertCommit == \E s \in Sessions : UpsertCommit(s)
DoUpsertReturn == \E s \in Sessions : UpsertReturn(s)
DoEntrar == \E c \in CodeInputs : Entrar(c)
DoSair == \E a \in AptIds : Sair(a)
DoCallUpsertLancamento ==
    \E a \in AptIds, m \in {M2601, M2602}, p \in CallPayloads :
        CallUpsertLancamento(a, m, p)

\* The property and configuration handlers, from an empty store and from a
\* legacy one.
InitSome == InitWith({NoTable, Table({OldCfgFull})}, {NoTable, Table({OldLanc1})})

Next == DoRerun \/ DoCriarImovel \/ DoSalvarImovel \/ DoSalvarConfig

Spec == InitSome /\ [][Next]_vars

\* Starts of the app from every legacy store, with properties added and
\* edited in between.
NextInit == DoRerun \/ DoCriarOne \/ DoSalvarImovel

SpecInit == Init /\ [][NextInit]_vars

\* Saves of the seeded property's months while time passes.
InitLedger == InitWith({NoTable}, LancStarts)

NextLedger == DoSalvarMes \/ Tick

SpecLedger == InitLedger /\ [][NextLedger]_vars

\* Tab 2 drawn and saved for up to MaxApts properties, within one second.
NextPrefill == DoCriarOne \/ DoAbrirMes \/ DoSalvarMes

SpecPrefill == InitLedger /\ [][NextPrefill]_vars

\* The store functions called directly, between starts of the app.
NextCalls == DoRerun \/ DoCriarOne \/ DoCallUpdateApartamento \/ DoCallSaveConfig

SpecCalls == InitSome /\ [][NextCalls]_vars

\* upsert_lancamento called directly on a store without legacy tables.
InitFresh == InitWith({NoTable}, {NoTable})

NextUpsert == DoRerun \/ DoCallUpsertLancamento \/ Tick

SpecUpsert == InitFresh /\ [][NextUpsert]_vars

\* The month conversions on their own: a text is drawn, then converted back
\* and forth.
InitMonth ==
    /\ ret \in MonthInputs
    /\ tables = {} /\ apartamentos = {} /\ configs = {} /\ config = {}
    /\ lancamentos = {} /\ lanc_schema = "new" /\ start_lanc = {}
    /\ seq = 0 /\ now = 0
    /\ lastOp = [op |-> "none", args |-> <<>>]
    /\ err = "ok"
    /\ repeated = FALSE
    /\ auth_ok = TRUE
    /\ calls = [s \in Sessions |-> Idle]

NextMonth == ToDisplay \/ ToMes

SpecMonth == InitMonth /\ [][NextMonth]_vars

\* Months saved under whatever the month field holds, and the history drawn.
NextKeys == DoSalvarMesLivre \/ DoHistorico

SpecKeys == InitFresh /\ [][NextKeys]_vars

\* Months saved for up to MaxApts properties, tab 2 and the history drawn.
NextLatest == DoCriarOne \/ DoSalvarMesOrd \/ DoAbrirMes \/ DoHistorico

SpecLatest == InitLedger /\ [][NextLatest]_vars

\* Sessions saving months of the seeded property at the same time.
NextConc == DoRerun \/ DoUpsertCall \/ DoUpsertExecute \/ DoUpsertCommit
            \/ DoUpsertReturn

SpecConc == InitFresh /\ [][NextConc]_vars

\* A session from its first run, not yet let in, on a store without tables.
InitGate ==
    /\ auth_ok = FALSE
    /\ tables = {} /\ apartamentos = {} /\ configs = {} /\ config = {}
    /\ lancamentos = {} /\ lanc_schema = "new" /\ start_lanc = {}
    /\ seq = 0 /\ now = 0
    /\ lastOp = [op |-> "none", args |-> <<>>]
    /\ err = "ok"
    /\ ret = NULL
    /\ repeated = FALSE
    /\ calls = [s \in Sessions |-> Idle]

NextGate == DoEntrar \/ Limpar \/ DoSair \/ DoRerun \/ DoSalvarMes \/ DoGerarPdf

SpecGate == InitGate /\ [][NextGate]_vars

\* The three places that show a record's totals, while time passes.
NextTotals == DoSalvarMes \/ DoGerarPdf \/ DoHistorico \/ DoGerarPdfSel \/ Tick

SpecTotals == InitFresh /\ [][NextTotals]_vars

-----
\* The ledger rows of key (p, m), and the amounts and notes of a row.
RowsOf(p, m) == {r \in lancamentos : r["apartamento_id"] = p /\ r["mes"] = m}
FieldsOf(r) == [c \in AmountCols \cup ObsCols |-> r[c]]
PayloadFields(data) ==
    [c \in AmountCols \cup ObsCols |-> IF c \in AmountCols THEN data[c].v ELSE data[c]]

\* C1 - Key uniqueness: the ledger never holds two records with the same
\* (property, month), and every save of (p, m) with payload Y ends without
\* error and leaves exactly one record for (p, m), whose seven amounts and
\* seven notes are Y's.
C1_KeyUniqueness ==
    /\ lanc_schema = "new" =>
          \A r1 \in lancamentos, r2 \in lancamentos :
              (r1["apartamento_id"] = r2["apartamento_id"] /\ r1["mes"] = r2["mes"])
                  => r1 = r2
    /\ lastOp.op = "upsert_lancamento" =>
          LET p == lastOp.args[1]
              m == lastOp.args[2]
              Y == lastOp.args[3]
          IN  /\ err = "ok"
              /\ Cardinality(RowsOf(p, m)) = 1
              /\ \A r \in RowsOf(p, m) : FieldsOf(r) = PayloadFields(Y)

\* A save of Y over a record of (p, m) written earlier, beside another record.
C1_Witness ==
    /\ lastOp.op = "upsert_lancamento"
    /\ lastOp.args[3] = PY
    /\ \E r \in RowsOf(lastOp.args[1], lastOp.args[2]) :
           r["created_at"] < r["updated_at"] /\ FieldsOf(r) = PayloadFields(PY)
    /\ Cardinality(lancamentos) > 1

\* The ledger without its updated_at column.
SansUpdated(rows) == {[c \in LancCols \ {"updated_at"} |-> r[c]] : r \in rows}

\* C2 - Upsert idempotence: a save that repeats the save before it (same
\* property, month and payload) ends as the first did and leaves the ledger as
\* it was in every column but updated_at.
C2_UpsertIdempotent ==
    [][(lastOp.op = "upsert_lancamento" /\ lastOp' = lastOp)
         => (err' = err /\ SansUpdated(lancamentos') = SansUpdated(lancamentos))]_vars

\* The same save made twice, the second a second later.
C2_Witness ==
    /\ repeated
    /\ lastOp.op = "upsert_lancamento"
    /\ err = "ok"
    /\ \E r \in RowsOf(lastOp.args[1], lastOp.args[2]) :
           r["created_at"] < r["updated_at"] /\ r["updated_at"] = now

\* C3 - Pre-fill policy: the values the entry fields of (p, m) are created
\* with are those of the record of (p, m) when there is one; otherwise those
\* of p's record with the greatest month; and zero / empty when p has no
\* record.
C3_Prefill ==
    lastOp.op = "prefill" =>
        LET p == lastOp.args[1]
            m == lastOp.args[2]
            mine == {r \in lancamentos : r["apartamento_id"] = p}
        IN  IF RowsOf(p, m) # {}
            THEN \A r \in RowsOf(p, m) : ret = FieldsOf(r)
            ELSE IF mine # {}
            THEN \E r \in mine :
                    /\ \A q \in mine : q["mes"] = r["mes"] \/ TextLess(q["mes"], r["mes"])
                    /\ ret = FieldsOf(r)
            ELSE ret = [c \in AmountCols \cup ObsCols |->
                           IF c \in AmountCols THEN 0 ELSE Empty]

\* The fields of a saved month are drawn while a later month holds other
\* values: they show the month's own.
C3_Witness ==
    /\ lastOp.op = "prefill"
    /\ lastOp.args[2] = M2601
    /\ \E r \in RowsOf(lastOp.args[1], M2601), q \in RowsOf(lastOp.args[1], M2602) :
           FieldsOf(r) # FieldsOf(q) /\ ret = FieldsOf(r)
-----------------------------------------------------------------------------
\* y is x without its leading and trailing blanks.
IsTrimOf(y, x) ==
    \E i \in 1..(Len(x) + 1), j \in 0..Len(x) :
        /\ y = SubSeq(x, i, j)
        /\ \A h \in 1..Len(x) : (h < i \/ h > j) => x[h] = " "
        /\ y # <<>> => (y[1] # " " /\ y[Len(y)] # " ")

ConfigsOf(id) == {c \in configs : c["apartamento_id"] = id}

\* C4 - Migration loses no data: once the app has started on a store whose
\* ledger table is the legacy one, init_db has completed and every legacy row
\* is exactly one record under the migrated property's id, with its amounts
\* (an absent amount as zero).
C4_MigrationKeepsLedger ==
    (table_exists(DB, "apartamentos") /\ start_lanc # {}) =>
        /\ ~(lastOp.op = "init_db" /\ err # "ok")
        /\ lanc_schema = "new"
        /\ \A old \in start_lanc :
              LET got == {r \in lancamentos : r["mes"] = old["mes"]}
              IN  /\ Cardinality(got) = 1
                  /\ \A r \in got :
                        /\ r["apartamento_id"] \in Ids(DB)
                        /\ r["aluguel"] = FloatOr0(Get(old, "aluguel", None_))
                        /\ r["condominio"] = FloatOr0(Get(old, "condominio", None_))
                        /\ r["iptu"] = FloatOr0(Get(old, "iptu", None_))
                        /\ r["consumo_agua"] = FloatOr0(Get(old, "taxa_admin", None_))
                        /\ r["outros_descontos"] = FloatOr0(Get(old, "desconto", None_))

\* C5 - Migration idempotence: a start of the app on a store init_db has
\* already run on (whatever the store held before the first start) raises
\* nothing and leaves every table as it was.
C5_InitDbIdempotent ==
    [][(table_exists(DB, "apartamentos") /\ lastOp'.op \in {"init_db", "load_config"})
         => (err' = "ok" /\ store' = store)]_vars

\* The app started again on a store that held a legacy config row and legacy
\* ledger rows.
C5_Witness ==
    /\ lastOp.op = "load_config"
    /\ config # {}
    /\ start_lanc # {}
    /\ Cardinality(apartamentos) = 1

\* The store init_db leaves when it finds no property: one property with one
\* configuration; from the legacy config row (id = 1) when there is one - the
\* address and locality trimmed, the default where the row has none, the texts
\* as the row has them, the due day 5 where the row has none - and otherwise
\* the default property with due day 5.
SeededAsClaimed ==
    \E a \in apartamentos :
        /\ apartamentos = {a}
        /\ Cardinality(configs) = 1
        /\ \A c \in configs :
            /\ c["apartamento_id"] = a.id
            /\ IF \E old \in config : old.id = 1
               THEN \E old \in config :
                      /\ old.id = 1
                      /\ IsTrimOf(a.imovel,
                                  IF "imovel" \in DOMAIN old /\ old.imovel # NULL
                                     /\ old.imovel # Empty
                                  THEN old.imovel ELSE DEF_IMOVEL)
                      /\ IsTrimOf(a.bairro,
                                  IF "bairro" \in DOMAIN old /\ old.bairro # NULL
                                     /\ old.bairro # Empty
                                  THEN old.bairro ELSE DEF_BAIRRO)
                      /\ \A k \in CfgTextCols :
                            c[k] = IF k \in DOMAIN old THEN old[k] ELSE Empty
                      /\ c["vencimento_dia"] =
                            IF old.vencimento_dia.k = "num" /\ old.vencimento_dia.v # 0
                            THEN old.vencimento_dia.v ELSE 5
               ELSE /\ a.apelido = DEF_APELIDO
                    /\ a.imovel = DEF_IMOVEL
                    /\ a.bairro = DEF_BAIRRO
                    /\ c["vencimento_dia"] = 5

\* C6 - Initial property creation: a start of the app on a store without
\* properties leaves exactly one property and exactly one configuration, taken
\* from the legacy config row when there is one and the defaults otherwise.
C6_InitialProperty ==
    [][(apartamentos = {} /\ lastOp'.op \in {"init_db", "load_config"})
         => SeededAsClaimed']_vars

\* The first start on a legacy config row whose address is padded and whose
\* configuration names a due day.
C6_Witness ==
    /\ lastOp.op = "load_config"
    /\ ~repeated
    /\ \E old \in config : old.id = 1 /\ "imovel" \in DOMAIN old /\ old.imovel = TPad
    /\ \E a \in apartamentos : a.imovel = TA /\ a.apelido = MIG_APELIDO
    /\ \E c \in configs : c["vencimento_dia"] = 10 /\ c["locador_nome"] = TA

\* C7 - Configuration 1:1: every property has exactly one configs row; a
\* load_config of a property ends without error and returns that row; and
\* were the row of a property missing, load_config would insert it with due
\* day 5 and return it, leaving the other rows alone.
C7_ConfigOneToOne ==
    /\ \A a \in apartamentos : Cardinality(ConfigsOf(a.id)) = 1
    /\ lastOp.op = "load_config" =>
          /\ err = "ok"
          /\ lastOp.args[1] \in Ids(DB)
          /\ \E c \in ConfigsOf(lastOp.args[1]) :
                \A k \in CfgCols \ {"apartamento_id"} : ret[k] = c[k]
    /\ \A a \in apartamentos :
          LET others == configs \ ConfigsOf(a.id)
              o == load_config([DB EXCEPT !.configs = others], a.id)
          IN  /\ o.err = "ok"
              /\ o.ret["vencimento_dia"] = 5
              /\ \E c \in o.db.configs :
                    /\ o.db.configs = others \cup {c}
                    /\ c["apartamento_id"] = a.id
                    /\ c["vencimento_dia"] = 5

\* Two properties, the second created through the form, its configuration
\* loaded.
C7_Witness ==
    /\ Cardinality(apartamentos) = 2
    /\ lastOp.op = "load_config"
    /\ lastOp.args[1] = 2
    /\ ret["vencimento_dia"] = 5

AllBlank(x) == \A h \in 1..Len(x) : x[h] = " "

\* C8 - createProperty validation: "Criar imovel" with a field that is empty
\* once trimmed shows the error and leaves the store as it was; with three
\* non-blank fields it adds one property holding the trimmed texts under a new
\* id, which it returns, and one configuration for it with due day 5.
C8_CreateValidation ==
    [][(apartamentos # {} /\ lastOp'.op = "criar_imovel") =>
         LET x == lastOp'.args
         IN  IF AllBlank(x[1]) \/ AllBlank(x[2]) \/ AllBlank(x[3])
             THEN err' = "ValidationError" /\ store' = store
             ELSE /\ err' = "ok"
                  /\ ret' \notin Ids(DB)
                  /\ \E a \in apartamentos' :
                        /\ apartamentos' = apartamentos \cup {a}
                        /\ a.id = ret'
                        /\ IsTrimOf(a.apelido, x[1])
                        /\ IsTrimOf(a.imovel, x[2])
                        /\ IsTrimOf(a.bairro, x[3])
                  /\ \E c \in configs' :
                        /\ configs' = configs \cup {c}
                        /\ c \notin configs
                        /\ c["apartamento_id"] = ret'
                        /\ c["vencimento_dia"] = 5]_vars

\* A form with a blank field was refused while the store held one property.
C8_Witness ==
    /\ lastOp.op = "criar_imovel"
    /\ lastOp.args[1] = Blank
    /\ err = "ValidationError"
    /\ Cardinality(apartamentos) = 1
    /\ Cardinality(configs) = 1

\* C9 - Not-found handling: update_apartamento and save_config called with an
\* id no property has end with NotFoundError.
C9_NotFound ==
    (lastOp.op \in {"update_apartamento", "save_config"}
        /\ lastOp.args[1] \notin Ids(DB))
      => err = "NotFoundError"

\* C10 - Due-day defaulting: save_config handed a due day that is None, zero
\* or negative stores 5, and every stored due day is within 1..28.
C10_DueDay ==
    /\ \A c \in configs : c["vencimento_dia"] \in 1..28
    /\ (lastOp.op = "save_config" /\ err = "ok" /\ lastOp.args[1] \in Ids(DB)) =>
          LET dia == Get(lastOp.args[2], "vencimento_dia", None_)
          IN  (dia.k = "none" \/ (dia.k = "num" /\ dia.v <= 0)) =>
                  \A c \in ConfigsOf(lastOp.args[1]) : c["vencimento_dia"] = 5
-----------------------------------------------------------------------------
\* C11 - Upsert coercion never raises: every upsert_lancamento ends without
\* error, whatever the payload; it stores 0 for each amount that is missing,
\* None or no number and the empty text for each note that is absent; and no
\* stored amount is negative.
C11_UpsertCoercion ==
    /\ \A r \in lancamentos : \A c \in AmountCols : r[c] >= 0
    /\ lastOp.op = "upsert_lancamento" =>
          LET Y == lastOp.args[3]
          IN  /\ err = "ok"
              /\ \A r \in RowsOf(lastOp.args[1], lastOp.args[2]) :
                    /\ \A c \in AmountCols :
                          (c \notin DOMAIN Y \/ Y[c].k # "num") => r[c] = 0
                    /\ \A c \in ObsCols :
                          (c \notin DOMAIN Y \/ Y[c] = NULL) => r[c] = Empty

\* The totals of a record: the six charges, and the charges less the discount.
SubtotalOf(r) == r["aluguel"] + r["condominio"] + r["iptu"] + r["consumo_agua"]
                 + r["seguro_incendio"] + r["outras_taxas"]
TotalsOf(r) == [subtotal |-> SubtotalOf(r),
                total |-> SubtotalOf(r) - r["outros_descontos"]]

\* C12 - Total computation: for every record of the ledger the statement, the
\* month screen (its fields holding the record's amounts) and the history
\* table compute subtotal = the six charges and total = subtotal - discount,
\* unclamped; and what "Gerar PDF" and the history table show for a record
\* is those figures.
C12_Totals ==
    /\ \A r \in lancamentos :
          /\ pdf_totals(LancDict(r)) = TotalsOf(r)
          /\ tab3_totals(ListDict(r)) = TotalsOf(r)
          /\ tab2_totals([c \in AmountCols |-> Num(r[c])]) = TotalsOf(r)
    /\ (lastOp.op = "generate_pdf_bytes" /\ err = "ok") =>
          /\ RowsOf(lastOp.args[1], lastOp.args[2]) # {}
          /\ \A r \in RowsOf(lastOp.args[1], lastOp.args[2]) :
                /\ ret.info = TotalsOf(r)
                /\ ret.pdf.subtotal = TotalsOf(r).subtotal
                /\ ret.pdf.total = TotalsOf(r).total
    /\ (lastOp.op = "generate_pdf_sel" /\ err = "ok") =>
          /\ RowsOf(lastOp.args[1], lastOp.args[2]) # {}
          /\ \A r \in RowsOf(lastOp.args[1], lastOp.args[2]) :
                /\ ret.pdf.subtotal = TotalsOf(r).subtotal
                /\ ret.pdf.total = TotalsOf(r).total
    /\ (lastOp.op = "list_lancamentos" /\ err = "ok") =>
          \A i \in 1..Len(ret) :
              /\ RowsOf(lastOp.args[1], ret[i].mes) # {}
              /\ \A r \in RowsOf(lastOp.args[1], ret[i].mes) :
                    ret[i].Total = TotalsOf(r).total

\* A statement rendered for a month whose discount exceeds its charges: the
\* screen and the statement both show the negative total.
C12_Witness ==
    /\ lastOp.op = "generate_pdf_bytes"
    /\ err = "ok"
    /\ ret.pdf.total < 0
    /\ ret.info.total = ret.pdf.total
    /\ \E r \in RowsOf(lastOp.args[1], lastOp.args[2]) :
           r["outros_descontos"] > SubtotalOf(r)
-----------------------------------------------------------------------------
\* Two digits that name a month, 01..12.
IsMonth2(a, b) == \/ a = "0" /\ b \in {"1", "2", "3", "4", "5", "6", "7", "8", "9"}
                  \/ a = "1" /\ b \in {"0", "1", "2"}

\* Digits that name a year in four or more places, without needless zeros.
IsYear4(y) == /\ Len(y) >= 4
              /\ \A i \in 1..Len(y) : IsDigit(y[i])
              /\ Len(y) > 4 => y[1] # "0"

\* t is a month token YYYY-MM; d is a month in display form MM/YYYY.
IsMonthToken(t) ==
    /\ Len(t) >= 7
    /\ t[Len(t) - 2] = "-"
    /\ IsMonth2(t[Len(t) - 1], t[Len(t)])
    /\ IsYear4(SubSeq(t, 1, Len(t) - 3))

IsMonthDisplay(d) ==
    /\ Len(d) >= 7
    /\ d[3] = "/"
    /\ IsMonth2(d[1], d[2])
    /\ IsYear4(SubSeq(d, 4, Len(d)))

\* C13 - Month format round trip: mes_to_display turns a month token into a
\* display form which display_to_mes turns back into the token, and
\* display_to_mes turns a display form into a token which mes_to_display
\* turns back into the display form.
C13_MonthRoundTrip ==
    [][/\ (lastOp.op = "mes_to_display" /\ IsMonthToken(lastOp.args[1])
             /\ lastOp'.op = "display_to_mes")
            => (IsMonthDisplay(ret) /\ ret' = lastOp.args[1])
       /\ (lastOp.op = "display_to_mes" /\ IsMonthDisplay(lastOp.args[1])
             /\ lastOp'.op = "mes_to_display")
            => (IsMonthToken(ret) /\ ret' = lastOp.args[1])]_vars

\* The token 0999-12 came back from its display form 12/0999.
C13_Witness ==
    /\ lastOp.op = "display_to_mes"
    /\ lastOp.args[1] = <<"1", "2", "/", "0", "9", "9", "9">>
    /\ ret = <<"0", "9", "9", "9", "-", "1", "2">>

\* The month count of a token YYYY-MM since year 0.
MonthNumber(t) == DigitsVal(SubSeq(t, 1, 4)) * 12 + DigitsVal(SubSeq(t, 6, 7))

\* C14 - Stored month keys are well formed: every record's month key is a
\* token YYYY-MM of seven characters with month 01..12, and among the keys
\* the text order is the order in time.
C14_MonthKeys ==
    /\ \A r \in lancamentos : Len(r["mes"]) = 7 /\ IsMonthToken(r["mes"])
    /\ \A r \in lancamentos, q \in lancamentos :
          TextLess(r["mes"], q["mes"]) <=> MonthNumber(r["mes"]) < MonthNumber(q["mes"])
-----------------------------------------------------------------------------
\* The ledger records of property p.
RecordsOf(p) == {r \in lancamentos : r["apartamento_id"] = p}

\* r is the record of property p with the greatest month token.
IsLatestOf(r, p) ==
    /\ r \in RecordsOf(p)
    /\ \A q \in RecordsOf(p) : q["mes"] = r["mes"] \/ TextLess(q["mes"], r["mes"])

\* C15 - Latest-record lookup: on every store the app reads the ledger of,
\* get_latest_lancamento(p) returns None exactly when p has no record and
\* otherwise the month, amounts and notes of p's record with the greatest
\* month token; list_lancamentos(p) holds p's records, each once, by month
\* descending, and its first element is that same record; and the history
\* table drawn for p starts with it.
C15_LatestLookup ==
    /\ (table_exists(DB, "lancamentos") /\ lanc_schema = "new") =>
          \A p \in AptIds :
              LET latest == get_latest_lancamento(DB, p)
                  lst == list_lancamentos(DB, p)
              IN  /\ latest.err = "ok" /\ lst.err = "ok"
                  /\ latest.db = DB /\ lst.db = DB
                  /\ (latest.ret = NULL) <=> (RecordsOf(p) = {})
                  /\ Len(lst.ret) = Cardinality(RecordsOf(p))
                  /\ \A i \in 1..Len(lst.ret) : \E r \in RecordsOf(p) :
                        /\ lst.ret[i]["mes"] = r["mes"]
                        /\ \A c \in AmountCols : lst.ret[i][c] = r[c]
                  /\ \A i \in 1..Len(lst.ret), j \in 1..Len(lst.ret) :
                        i < j => TextLess(lst.ret[j]["mes"], lst.ret[i]["mes"])
                  /\ RecordsOf(p) # {} =>
                        \E r \in RecordsOf(p) :
                            /\ IsLatestOf(r, p)
                            /\ latest.ret["mes"] = r["mes"]
                            /\ \A c \in AmountCols \cup ObsCols : latest.ret[c] = r[c]
                            /\ lst.ret[1]["mes"] = r["mes"]
    /\ (lastOp.op = "list_lancamentos" /\ err = "ok") =>
          /\ Len(ret) = Cardinality(RecordsOf(lastOp.args[1]))
          /\ ret # <<>> => \E r \in RecordsOf(lastOp.args[1]) :
                 IsLatestOf(r, lastOp.args[1]) /\ ret[1].mes = r["mes"]

\* The history of a property with three months was drawn while another
\* property holds a record too: it starts with 2026-02, although 10000-01
\* was saved as well.
C15_Witness ==
    /\ lastOp.op = "list_lancamentos"
    /\ Len(ret) = Cardinality(OrdMesInputs)
    /\ ret[1].mes = M2602
    /\ \E p \in AptIds : p # lastOp.args[1] /\ RecordsOf(p) # {}
-----------------------------------------------------------------------------
\* The calls that have returned for key (p, m).
DoneOn(p, m) == {s \in Sessions : calls[s].pc = "done" /\ calls[s].apt_id = p
                                  /\ calls[s].mes = m}

\* C16 - Concurrent saves are last-write-wins and atomic per record: when two
\* sessions have upserted the same (p, m) with different payloads, however
\* their steps interleaved, neither call raised, the ledger holds exactly one
\* record for (p, m), its seven amounts and seven notes are those of one
\* payload as a whole, and they are those of the call that committed last.
C16_LastWriteWins ==
    \A s \in Sessions, o \in Sessions :
        (s # o /\ calls[s].pc = "done" /\ o \in DoneOn(calls[s].apt_id, calls[s].mes)
           /\ calls[s].data # calls[o].data) =>
            LET p == calls[s].apt_id
                m == calls[s].mes
            IN  /\ calls[s].err = "ok" /\ calls[o].err = "ok"
                /\ Cardinality(RowsOf(p, m)) = 1
                /\ \A r \in RowsOf(p, m) :
                      /\ \E y \in Payloads : FieldsOf(r) = PayloadFields(y)
                      /\ \A w \in DoneOn(p, m) :
                            calls[w].last => FieldsOf(r) = PayloadFields(calls[w].data)
                /\ Cardinality({w \in DoneOn(p, m) : calls[w].last}) <= 1

\* Two sessions were in their calls for the same key at the same time, the
\* second got the lock first, the first committed last, and the record holds
\* the first one's payload.
C16_Witness ==
    /\ calls[1].pc = "done" /\ calls[2].pc = "done"
    /\ calls[2].raced /\ ~calls[1].raced
    /\ calls[1].apt_id = calls[2].apt_id /\ calls[1].mes = calls[2].mes
    /\ calls[1].data = PX /\ calls[2].data = PY
    /\ calls[1].last
    /\ \A r \in RowsOf(calls[1].apt_id, calls[1].mes) : FieldsOf(r) = PayloadFields(PX)
-----------------------------------------------------------------------------
\* C17 - Timestamps: a save of (p, m) that finds no record of the key sets
\* created_at and updated_at to the time of the save; one that finds a record
\* keeps its created_at and sets its updated_at to the time of the save; and
\* the records of the other keys stay as they were, timestamps included.
C17_Timestamps ==
    [][(lastOp'.op = "upsert_lancamento" /\ err' = "ok" /\ now' = now) =>
         LET p == lastOp'.args[1]
             m == lastOp'.args[2]
             before == RowsOf(p, m)
             after == {r \in lancamentos' : r["apartamento_id"] = p /\ r["mes"] = m}
         IN  /\ after # {}
             /\ \A a \in after :
                   /\ a["updated_at"] = now
                   /\ before = {} => a["created_at"] = now
                   /\ \A b \in before : a["created_at"] = b["created_at"]
             /\ lancamentos' \ after = lancamentos \ before]_vars

\* A month saved and, later, saved again, beside a month first saved in
\* between and not touched since.
C17_Witness ==
    /\ lastOp.op = "upsert_lancamento"
    /\ now = MaxClock
    /\ \E r \in RowsOf(lastOp.args[1], lastOp.args[2]), q \in lancamentos :
           /\ q["mes"] # r["mes"]
           /\ r["created_at"] < q["created_at"]
           /\ q["created_at"] = q["updated_at"]
           /\ q["updated_at"] < r["updated_at"]
           /\ r["updated_at"] = now
-----------------------------------------------------------------------------
\* C18 - Access gate: a run made while auth_ok is false touches no table,
\* calls no store function and renders no statement (only "Entrar" and
\* "Limpar" act); auth_ok turns true only by "Entrar" with a code of
\* ALLOWED_CODES; "Entrar" with another code and "Limpar" leave it false;
\* and "Sair" makes it false.
C18_AccessGate ==
    [][/\ ~auth_ok => (store' = store /\ lastOp'.op \in {"Entrar", "Limpar"})
       /\ (~auth_ok /\ auth_ok') =>
             (lastOp'.op = "Entrar" /\ lastOp'.args[1] \in ALLOWED_CODES)
       /\ (lastOp'.op = "Entrar" /\ lastOp'.args[1] \notin ALLOWED_CODES) => ~auth_ok'
       /\ lastOp'.op = "Limpar" => ~auth_ok'
       /\ lastOp'.op = "Sair" => ~auth_ok']_vars

\* The user came in with a code, saved a month and left: the session is
\* gated again.
C18_Witness ==
    /\ lastOp.op = "Sair"
    /\ ~auth_ok
    /\ lancamentos # {}
====
